---- MODULE Spec2Model ----
(***************************************************************************)
(* A model of the URL-to-PDF service of src/app.js: the two pure helpers   *)
(* isValidUrl and sanitizeFilename, the adapter generatePDF (one browser   *)
(* session per call) and the POST and GET /generate-pdf handlers.          *)
(*                                                                         *)
(* JavaScript strings are sequences of one-character strings.  An object   *)
(* is a function whose DOMAIN is its set of keys; a key that is not in the *)
(* DOMAIN is undefined.  Every awaited call of the browser engine is one   *)
(* action whose outcome (resolve or reject) the engine chooses.            *)
(***************************************************************************)
EXTENDS Integers, Sequences, FiniteSets, TLC

VARIABLES pc, req, args, browser, page, error, pdf, pdfOptions, res, calls,
          sessions, sIn, sOut, sPc

vars == <<pc, req, args, browser, page, error, pdf, pdfOptions, res, calls,
          sessions, sIn, sOut, sPc>>

\* ------------------------------------------------------------- bounds

\* Number of requests the server handles, all of them possibly in flight at
\* the same time (src/app.js puts no cap on concurrent requests).
NumRequests == 2

\* Longest run of padding characters in a sanitizeFilename input is
\* FilenameLimit + PadOver, so that truncation happens.
PadOver == 10

\* ------------------------------------------------------------ strings

\* .substring(0, 50)
FilenameLimit == 50

Lower == <<"a","b","c","d","e","f","g","h","i","j","k","l","m",
           "n","o","p","q","r","s","t","u","v","w","x","y","z">>

Upper == <<"A","B","C","D","E","F","G","H","I","J","K","L","M",
           "N","O","P","Q","R","S","T","U","V","W","X","Y","Z">>

Digits == <<"0","1","2","3","4","5","6","7","8","9">>

Range(s) == {s[i] : i \in DOMAIN s}

IsAlpha(c) == c \in Range(Lower) \cup Range(Upper)

\* [a-z0-9] under the i flag
IsAlnum(c) == IsAlpha(c) \/ c \in Range(Digits)

\* String.prototype.toLowerCase on one UTF-16 unit (ASCII letters only: every
\* other unit it is applied to here is left as it is)
LowerChar(c) ==
    IF c \in Range(Upper)
    THEN Lower[CHOOSE i \in DOMAIN Upper : Upper[i] = c]
    ELSE c

ToLowerCase(s) == [i \in DOMAIN s |-> LowerChar(s[i])]

Min(a, b) == IF a < b THEN a ELSE b

\* s.substring(0, n)
Substring0(s, n) == SubSeq(s, 1, Min(n, Len(s)))

\* does pattern p occur in s at index i (1-based)
MatchesAt(s, p, i) ==
    /\ i >= 1
    /\ i + Len(p) - 1 <= Len(s)
    /\ \A k \in 1..Len(p) : s[i + k - 1] = p[k]

HttpScheme == <<"h","t","t","p",":","/","/">>

HttpsScheme == <<"h","t","t","p","s",":","/","/">>

\* length of the match of /https?:\/\// at index i, 0 when there is none
SchemeMatchLen(s, i) ==
    IF MatchesAt(s, HttpsScheme, i) THEN Len(HttpsScheme)
    ELSE IF MatchesAt(s, HttpScheme, i) THEN Len(HttpScheme)
    ELSE 0

\* the same pattern anchored at the start of the string: /^https?:\/\//
StripSchemeAnchored(s) ==
    SubSeq(s, SchemeMatchLen(s, 1) + 1, Len(s))

\* .replace(/https?:\/\//, ''): a regex without the g flag and without an
\* anchor removes the leftmost match, wherever it is
StripScheme(s) ==
    LET hits == {i \in 1..Len(s) : SchemeMatchLen(s, i) > 0}
    IN  IF hits = {} THEN s
        ELSE LET i == CHOOSE j \in hits : \A k \in hits : j <= k
             IN  SubSeq(s, 1, i - 1) \o SubSeq(s, i + SchemeMatchLen(s, i), Len(s))

\* .replace(/[^a-z0-9]/gi, '_')
ReplaceNonAlnum(s) == [i \in DOMAIN s |-> IF IsAlnum(s[i]) THEN s[i] ELSE "_"]

sanitizeFilename(url) ==
    Substring0(ToLowerCase(ReplaceNonAlnum(StripScheme(url))), FilenameLimit)

\* schemes for which the URL parser requires a host
SpecialSchemes == { <<"h","t","t","p">>, <<"h","t","t","p","s">>, <<"f","t","p">> }

IsSchemeChar(c) == IsAlnum(c) \/ c \in {"+", "-", "."}

\* new URL(string) without a base, as far as the strings of the model need:
\* the string must start with a scheme (a letter, then letters, digits, + - .)
\* and a colon; a special scheme must be followed by a non-empty host
ParsesAsUrl(s) ==
    LET colons == {i \in 1..Len(s) : s[i] = ":"}
    IN  /\ colons # {}
        /\ LET c == CHOOSE j \in colons : \A k \in colons : j <= k
               scheme == ToLowerCase(SubSeq(s, 1, c - 1))
               rest == SubSeq(s, c + 1, Len(s))
               slashes == {i \in 1..Len(rest) : rest[i] \notin {"/", "\\"}}
           IN  /\ c > 1
               /\ IsAlpha(s[1])
               /\ \A k \in 1..(c - 1) : IsSchemeChar(s[k])
               /\ scheme \in SpecialSchemes =>
                      /\ slashes # {}
                      /\ rest[CHOOSE j \in slashes : \A k \in slashes : j <= k]
                            \notin {"?", "#", ":"}

\* try { new URL(string); return true } catch (_) { return false }
isValidUrl(string) == ParsesAsUrl(string)

\* ------------------------------------------------------------ objects

\* {}
EmptyObj == [k \in {} |-> TRUE]

Has(obj, k) == k \in DOMAIN obj

\* the object with only the keys of obj that are in keys
Pick(obj, keys) == [k \in keys \cap DOMAIN obj |-> obj[k]]

\* { ...a, ...b }: b's keys win, key by key, one level deep
Spread(a, b) ==
    [k \in DOMAIN a \cup DOMAIN b |-> IF k \in DOMAIN b THEN b[k] ELSE a[k]]

MarginSides == {"top", "right", "bottom", "left"}

DefaultMargin ==
    [top |-> "20px", right |-> "20px", bottom |-> "20px", left |-> "20px"]

DefaultPdfOptions ==
    [format |-> "A4",
     printBackground |-> TRUE,
     margin |-> DefaultMargin,
     displayHeaderFooter |-> TRUE,
     headerTemplate |-> "<div style=\"font-size: 10px; margin: auto;\"></div>",
     footerTemplate |-> "<div style=\"font-size: 10px; margin: auto; color: #666;\"><span class=\"pageNumber\"></span> / <span class=\"totalPages\"></span></div>"]

\* const pdfOptions = { <defaults>, ...options }
MergePdfOptions(options) == Spread(DefaultPdfOptions, options)

\* ----------------------------------------------------------- requests

Requests == 1..NumRequests

UrlExample == <<"h","t","t","p","s",":","/","/","E","x","a","m","p","l","e",".","c","o","m","/","P","a","t","h","?","q","=","1">>

UrlNested == <<"f","t","p",":","/","/","a","/","h","t","t","p",":","/","/","b">>

UrlGithub == <<"h","t","t","p","s",":","/","/","g","i","t","h","u","b",".","c","o","m">>

NotAUrl == <<"n","o","t","-","a","-","u","r","l">>

CustomName == <<"c","u","s","t","o","m",".","p","d","f">>

\* a name with a character that no HTTP header value may hold
NewlineName == <<"a", "\n", "b">>

DotPdf == <<".", "p", "d", "f">>

\* the options of the README's "Advanced Options" example
ReadmeOptions ==
    [format |-> "A3", landscape |-> TRUE,
     margin |-> [top |-> "50px", bottom |-> "50px"]]

\* an options object with every key a caller of the model may send
FullOptions ==
    [format |-> "A3", landscape |-> TRUE, printBackground |-> FALSE,
     headerTemplate |-> "<b>h</b>", footerTemplate |-> "<i>f</i>",
     margin |-> [top |-> "50px", right |-> "5px", bottom |-> "50px", left |-> "5px"]]

MarginChoices ==
    {Pick(FullOptions.margin, s) :
        s \in {{}, {"top"}, {"top", "bottom"}, {"right", "left"}, MarginSides}}

\* every options object of the model: any subset of the keys, and when margin
\* is among them any of the margin objects
OptionChoices ==
    {Pick(FullOptions, ks) : ks \in SUBSET (DOMAIN FullOptions \ {"margin"})}
    \cup {Spread(Pick(FullOptions, ks), [margin |-> m]) :
            ks \in SUBSET (DOMAIN FullOptions \ {"margin"}), m \in MarginChoices}

\* a request: the method and req.body (POST) or req.query (GET)
Request(method, params) == [method |-> method, params |-> params]

\* the requests of the concurrent specification: every rejection case of both
\* routes, the README's POST, and a GET whose query carries option-like keys
CuratedRequests ==
    { Request("POST", [url |-> NotAUrl, options |-> ReadmeOptions]),
      Request("GET", EmptyObj),
      Request("POST", [url |-> UrlExample, filename |-> CustomName,
                       options |-> ReadmeOptions]),
      Request("GET", [url |-> UrlNested, options |-> ReadmeOptions,
                      format |-> "A3", landscape |-> TRUE]) }

\* the requests of the single-request specification: both routes, with and
\* without a filename, with every options object (a GET carries the options
\* both as an options parameter and as top-level query parameters), and both
\* routes with the url missing, empty, or not a URL
AllRequests ==
    { Request(m, Spread(Spread(IF m = "GET" THEN Pick(o, DOMAIN o \ {"margin"})
                                             ELSE EmptyObj,
                               [url |-> UrlExample, options |-> o]), f)) :
        m \in {"POST", "GET"}, o \in OptionChoices,
        f \in {EmptyObj, [filename |-> CustomName], [filename |-> NewlineName]} }
    \cup { Request(m, p) :
             m \in {"POST", "GET"},
             p \in { [url |-> UrlExample], [url |-> UrlNested], EmptyObj,
                     [url |-> <<>>], [options |-> ReadmeOptions],
                     [url |-> NotAUrl], [url |-> HttpsScheme],
                     [url |-> NotAUrl, filename |-> CustomName,
                      options |-> ReadmeOptions] } }

NoRequest == Request("none", EmptyObj)

\* ------------------------------------------------------------- engine

\* the browser-engine calls of generatePDF, in program order
StepOrder ==
    <<"launch", "newPage", "setViewport", "setUserAgent", "goto",
      "waitForTimeout", "pdf", "close">>

\* error.message of a rejected engine call
RejectionMessage(op) ==
    CASE op = "launch" -> "Failed to launch the browser process"
      [] op = "newPage" -> "Protocol error (Target.createTarget)"
      [] op = "setViewport" -> "Protocol error (Emulation.setDeviceMetricsOverride)"
      [] op = "setUserAgent" -> "Protocol error (Network.setUserAgentOverride)"
      [] op = "goto" -> "Navigation timeout of 30000 ms exceeded"
      [] op = "waitForTimeout" -> "Protocol error (Runtime.callFunctionOn)"
      [] op = "pdf" -> "Protocol error (Page.printToPDF)"
      [] op = "close" -> "Protocol error (Browser.close)"

\* what res.setHeader throws for a value with a forbidden character
HeaderErrorMessage == "Invalid character in header content [\"Content-Disposition\"]"

\* the bytes page.pdf resolves with: the page as navigated, printed with the
\* options it was given, between the PDF header and trailer
RenderBytes(url, options) == <<"%PDF-", url, options, "%%EOF">>

\* A session handle is an object reference: the model names the session that
\* call r of generatePDF launches by r, and 0 is undefined.
NoSession == [launched |-> FALSE, open |-> FALSE, usedBy |-> {}, url |-> <<>>]

\* a session as puppeteer.launch creates it; usedBy records which calls of
\* generatePDF have made a call through its handle
NewSession(r) ==
    [launched |-> TRUE, open |-> TRUE, usedBy |-> {r}, url |-> <<>>]

\* a call made through handle h by request r
Touch(ss, h, r) ==
    IF h \in DOMAIN ss THEN [ss EXCEPT ![h].usedBy = @ \cup {r}] ELSE ss

\* browser.close(): resolved, the session is gone; rejected, the engine may or
\* may not have gone down (left)
CloseSession(ss, h, r, ok, left) ==
    IF h \in DOMAIN ss
    THEN [Touch(ss, h, r) EXCEPT ![h].open = IF ok THEN FALSE ELSE @ /\ left]
    ELSE ss

\* the outcomes of browser.close(): <<resolved, session left open>>
CloseOutcomes == {<<TRUE, FALSE>>, <<FALSE, FALSE>>, <<FALSE, TRUE>>}

\* a browser variable declared outside generatePDF: one for all calls
SharedFrame(r) == 1

\* "let browser" is a local of generatePDF: each call has its own
FrameOf(r) == r

\* a try block that goes on to the settle delay after a rejected page.goto
SwallowNavigationTimeout(op, ok) ==
    IF ~ok /\ op # "goto" THEN "catch"
    ELSE CASE op = "launch" -> "newPage"
           [] op = "newPage" -> "setViewport"
           [] op = "setViewport" -> "setUserAgent"
           [] op = "setUserAgent" -> "goto"
           [] op = "goto" -> "waitForTimeout"
           [] op = "waitForTimeout" -> "pdf"
           [] op = "pdf" -> "close"
           [] op = "close" -> "return"

\* where control goes when the awaited call op of the try block settles: to
\* the next statement when it resolved, to the catch block when it rejected
TryNext(op, ok) ==
    IF ~ok THEN "catch"
    ELSE CASE op = "launch" -> "newPage"
           [] op = "newPage" -> "setViewport"
           [] op = "setViewport" -> "setUserAgent"
           [] op = "setUserAgent" -> "goto"
           [] op = "goto" -> "waitForTimeout"
           [] op = "waitForTimeout" -> "pdf"
           [] op = "pdf" -> "close"
           [] op = "close" -> "return"

Call(op, ok, h) == [op |-> op, ok |-> ok, on |-> h]

NoResponse == [status |-> 0]

\* res.status(code).json(body)
JsonResponse(code, body) ==
    [status |-> code, headers |-> [ContentType |-> "application/json"],
     json |-> body]

\* the three res.setHeader calls and res.send(pdf)
PdfResponse(name, length, body) ==
    [status |-> 200,
     headers |-> [ContentType |-> "application/pdf",
                  ContentDisposition |-> [type |-> "attachment", filename |-> name],
                  ContentLength |-> length],
     body |-> body]

\* new Date().toISOString()
Timestamp == "timestamp"

ErrorBody(message) ==
    [error |-> "Failed to generate PDF", message |-> message,
     timestamp |-> Timestamp]

\* !url, for url undefined or a string
Falsy(params, k) == ~Has(params, k) \/ params[k] = <<>>

\* a handler with the first check only
RejectsMissingOnly(params) == Falsy(params, "url")

\* the two checks that end a request with 400
Rejects(params) == Falsy(params, "url") \/ ~isValidUrl(params.url)

\* a GET handler that passes req.query.options on
QueryOptionsArg(params) == IF Has(params, "options") THEN params.options ELSE EmptyObj

\* the second argument the GET handler passes to generatePDF: none, so the
\* parameter takes its default {}
GetOptionsArg(params) == EmptyObj

\* const { options = {} } = req.body
PostOptionsArg(params) == IF Has(params, "options") THEN params.options ELSE EmptyObj

OptionsArg(request) ==
    IF request.method = "POST" THEN PostOptionsArg(request.params)
    ELSE GetOptionsArg(request.params)

\* filename || `${sanitizeFilename(url)}.pdf`
PdfFilename(params) ==
    IF Falsy(params, "filename") THEN sanitizeFilename(params.url) \o DotPdf
    ELSE params.filename

\* Node refuses a header value with a control character
ValidHeaderValue(s) == \A i \in DOMAIN s : s[i] # "\n"

\* pdf.length
PdfLength(bytes) == Len(bytes)

\* ------------------------------------------------------------ actions

InitServer ==
    /\ pc = [r \in Requests |-> "idle"]
    /\ req = [r \in Requests |-> NoRequest]
    /\ args = [r \in Requests |-> [url |-> <<>>, options |-> EmptyObj]]
    /\ browser = [r \in Requests |-> 0]
    /\ page = [r \in Requests |-> 0]
    /\ error = [r \in Requests |-> ""]
    /\ pdf = [r \in Requests |-> <<>>]
    /\ pdfOptions = [r \in Requests |-> EmptyObj]
    /\ res = [r \in Requests |-> NoResponse]
    /\ calls = [r \in Requests |-> <<>>]
    /\ sessions = [h \in Requests |-> NoSession]

Init ==
    /\ InitServer
    /\ sIn = <<>>
    /\ sOut = <<>>
    /\ sPc = "unused"

sanVars == <<sIn, sOut, sPc>>

\* a request arrives and its handler is scheduled
Arrive(r, request) ==
    /\ pc[r] = "idle"
    /\ req' = [req EXCEPT ![r] = request]
    /\ pc' = [pc EXCEPT ![r] = "handler"]
    /\ UNCHANGED <<args, browser, page, error, pdf, pdfOptions, res, calls,
                   sessions, sanVars>>

Receive(r) == \E request \in CuratedRequests : Arrive(r, request)

ReceiveAny(r) == \E request \in AllRequests : Arrive(r, request)

\* the handler up to its first await: the two 400 answers, or the call of
\* generatePDF(url, options) (POST) or generatePDF(url) (GET)
Handler(r) ==
    /\ pc[r] = "handler"
    /\ IF Rejects(req[r].params)
       THEN /\ res' = [res EXCEPT ![r] =
                  JsonResponse(400,
                      [error |-> IF Falsy(req[r].params, "url")
                                 THEN IF req[r].method = "POST"
                                      THEN "URL is required"
                                      ELSE "URL parameter is required"
                                 ELSE "Invalid URL format"])]
            /\ pc' = [pc EXCEPT ![r] = "done"]
            /\ UNCHANGED args
       ELSE /\ args' = [args EXCEPT ![r] =
                  [url |-> req[r].params.url, options |-> OptionsArg(req[r])]]
            /\ pc' = [pc EXCEPT ![r] = "launch"]
            /\ UNCHANGED res
    /\ UNCHANGED <<req, browser, page, error, pdf, pdfOptions, calls,
                   sessions, sanVars>>

\* the handler after generatePDF resolved: the file name, the three headers,
\* res.send(pdf); a throwing setHeader lands in the handler's catch block
Respond(r) ==
    LET name == PdfFilename(req[r].params)
    IN  IF ValidHeaderValue(name)
        THEN /\ res' = [res EXCEPT ![r] =
                   PdfResponse(name, PdfLength(pdf[r]), pdf[r])]
             /\ UNCHANGED error
        ELSE /\ res' = [res EXCEPT ![r] =
                   JsonResponse(500, ErrorBody(HeaderErrorMessage))]
             /\ error' = [error EXCEPT ![r] = HeaderErrorMessage]

\* the handler's catch block: generatePDF rejected with message
RespondError(r, message) ==
    /\ error' = [error EXCEPT ![r] = message]
    /\ res' = [res EXCEPT ![r] = JsonResponse(500, ErrorBody(message))]

\* The awaited call op of the try block settles and the program runs on to its
\* next await: the next engine call, the close of the catch block, or the end
\* of the handler (single-threaded: nothing else runs in between).
Settle(r, op, ok, h) ==
    /\ calls' = [calls EXCEPT ![r] = Append(@, Call(op, ok, h))]
    /\ LET k == TryNext(op, ok)
       IN  CASE k = "catch" ->
                  IF browser[FrameOf(r)] # 0
                  THEN /\ error' = [error EXCEPT ![r] = RejectionMessage(op)]
                       /\ pc' = [pc EXCEPT ![r] = "catchClose"]
                       /\ UNCHANGED res
                  ELSE /\ RespondError(r, RejectionMessage(op))
                       /\ pc' = [pc EXCEPT ![r] = "done"]
             [] k = "return" ->
                  /\ Respond(r)
                  /\ pc' = [pc EXCEPT ![r] = "done"]
             [] OTHER ->
                  /\ pc' = [pc EXCEPT ![r] = k]
                  /\ UNCHANGED <<error, res>>

\* browser = await puppeteer.launch({...})
Launch(r) ==
    /\ pc[r] = "launch"
    /\ \/ /\ sessions' = [sessions EXCEPT ![r] = NewSession(r)]
          /\ browser' = [browser EXCEPT ![FrameOf(r)] = r]
          /\ Settle(r, "launch", TRUE, r)
       \/ /\ Settle(r, "launch", FALSE, 0)
          /\ UNCHANGED <<sessions, browser>>
    /\ UNCHANGED <<req, args, page, pdf, pdfOptions, sanVars>>

\* const page = await browser.newPage()
NewPage(r) ==
    /\ pc[r] = "newPage"
    /\ LET h == browser[FrameOf(r)]
       IN  /\ sessions' = Touch(sessions, h, r)
           /\ \/ /\ page' = [page EXCEPT ![r] = h]
                 /\ Settle(r, "newPage", TRUE, h)
              \/ /\ Settle(r, "newPage", FALSE, h)
                 /\ UNCHANGED page
    /\ UNCHANGED <<req, args, browser, pdf, pdfOptions, sanVars>>

\* an awaited call on the page that changes nothing the program reads
PageCall(r, op) ==
    /\ pc[r] = op
    /\ sessions' = Touch(sessions, page[r], r)
    /\ \E ok \in BOOLEAN : Settle(r, op, ok, page[r])
    /\ UNCHANGED <<req, args, browser, page, pdf, pdfOptions, sanVars>>

\* await page.setViewport({ width: 1920, height: 1080 })
SetViewport(r) == PageCall(r, "setViewport")

\* await page.setUserAgent('Mozilla/5.0 ...')
SetUserAgent(r) == PageCall(r, "setUserAgent")

\* await page.goto(url, { waitUntil: 'networkidle2', timeout: 30000 })
Goto(r) ==
    /\ pc[r] = "goto"
    /\ \/ /\ sessions' = [Touch(sessions, page[r], r) EXCEPT
                            ![page[r]].url = args[r].url]
          /\ Settle(r, "goto", TRUE, page[r])
       \/ /\ sessions' = Touch(sessions, page[r], r)
          /\ Settle(r, "goto", FALSE, page[r])
    /\ UNCHANGED <<req, args, browser, page, pdf, pdfOptions, sanVars>>

\* await page.waitForTimeout(2000)
WaitForTimeout(r) == PageCall(r, "waitForTimeout")

\* const pdfOptions = {...}; const pdf = await page.pdf(pdfOptions)
Pdf(r) ==
    /\ pc[r] = "pdf"
    /\ pdfOptions' = [pdfOptions EXCEPT ![r] = MergePdfOptions(args[r].options)]
    /\ sessions' = Touch(sessions, page[r], r)
    /\ \/ /\ pdf' = [pdf EXCEPT ![r] =
                RenderBytes(sessions[page[r]].url, pdfOptions'[r])]
          /\ Settle(r, "pdf", TRUE, page[r])
       \/ /\ Settle(r, "pdf", FALSE, page[r])
          /\ UNCHANGED pdf
    /\ UNCHANGED <<req, args, browser, page, sanVars>>

\* await browser.close(); return pdf   (the last statements of the try block)
Close(r) ==
    /\ pc[r] = "close"
    /\ LET h == browser[FrameOf(r)]
       IN  \E o \in CloseOutcomes :
             /\ sessions' = CloseSession(sessions, h, r, o[1], o[2])
             /\ Settle(r, "close", o[1], h)
    /\ UNCHANGED <<req, args, browser, page, pdf, pdfOptions, sanVars>>

\* if (browser) { await browser.close(); } throw error;   (the catch block,
\* and the handler's catch block that the rejection reaches)
CatchClose(r) ==
    /\ pc[r] = "catchClose"
    /\ LET h == browser[FrameOf(r)]
       IN  \E o \in CloseOutcomes :
             /\ sessions' = CloseSession(sessions, h, r, o[1], o[2])
             /\ calls' = [calls EXCEPT ![r] = Append(@, Call("close", o[1], h))]
             /\ RespondError(r, IF o[1] THEN error[r] ELSE RejectionMessage("close"))
    /\ pc' = [pc EXCEPT ![r] = "done"]
    /\ UNCHANGED <<req, args, browser, page, pdf, pdfOptions, sanVars>>

Serve(r) ==
    \/ Handler(r)
    \/ Launch(r)
    \/ NewPage(r)
    \/ SetViewport(r)
    \/ SetUserAgent(r)
    \/ Goto(r)
    \/ WaitForTimeout(r)
    \/ Pdf(r)
    \/ Close(r)
    \/ CatchClose(r)

Next == \E r \in Requests : Receive(r) \/ Serve(r)

\* requests handled concurrently
Spec == Init /\ [][Next]_vars

NextOptions == ReceiveAny(1) \/ Serve(1)

\* one request at a time, over every options object
SpecOptions == Init /\ [][NextOptions]_vars

\* ----------------------------------------------------- sanitizeFilename

\* n copies of c
Pad(c, n) == [i \in 1..n |-> c]

SanHeads ==
    { <<>>, <<"x">>, <<"A", "-">>, <<"f","t","p",":","/","/","a","/">> }

SanSchemes ==
    { <<>>, HttpScheme, HttpsScheme, <<"H","T","T","P",":","/","/">>,
      <<"h","t","t","p",":","/">>, HttpScheme \o HttpsScheme }

SanTails ==
    { <<>>, <<"E","x","a","m","p","l","e",".","c","o","m","/","P","a","t","h","?","q","=","1">>,
      <<"b","_","9"," ","Z">> }

\* the strings sanitizeFilename is applied to: with and without a scheme, at
\* the start and further in, shorter and longer than the limit
SanInputs ==
    { h \o s \o t \o Pad("Q", n) :
        h \in SanHeads, s \in SanSchemes, t \in SanTails,
        n \in {0, FilenameLimit - Len(HttpsScheme), FilenameLimit + PadOver} }

InitSanitize ==
    /\ InitServer
    /\ sIn \in SanInputs
    /\ sOut = <<>>
    /\ sPc = "start"

\* one call of sanitizeFilename(sIn)
Sanitize ==
    /\ sPc = "start"
    /\ sOut' = sanitizeFilename(sIn)
    /\ sPc' = "done"
    /\ UNCHANGED <<pc, req, args, browser, page, error, pdf, pdfOptions, res,
                   calls, sessions, sIn>>

NextSanitize == Sanitize

\* sanitizeFilename as a pure function, over SanInputs
SpecSanitize == InitSanitize /\ [][NextSanitize]_vars

\* ------------------------------------------------------------- claims

\* the engine calls call r of generatePDF has made, by name
Count(r, op) == Cardinality({i \in DOMAIN calls[r] : calls[r][i].op = op})

Resolves(r, op) == \E i \in DOMAIN calls[r] : calls[r][i].op = op /\ calls[r][i].ok

Rejects1(r, op) == \E i \in DOMAIN calls[r] : calls[r][i].op = op /\ ~calls[r][i].ok

\* generatePDF was called for request r and has returned or thrown
Exited(r) == pc[r] = "done" /\ calls[r] # <<>>

StepIndex(op) == CHOOSE i \in DOMAIN StepOrder : StepOrder[i] = op

\* C1: on every exit path of generatePDF a session that was launched has had
\* close called on it exactly once, and when the launch failed close was
\* never called.
ClosedExactlyOnce ==
    \A r \in Requests :
        Exited(r) =>
            Count(r, "close") = (IF Resolves(r, "launch") THEN 1 ELSE 0)

\* C2: a request of either route whose url is missing or not a valid URL
\* never gets past the handler's validation: generatePDF is not called for it,
\* no session is launched, and its answer is 400.
InvalidUrlRejectedBeforeLaunch ==
    \A r \in Requests :
        (/\ req[r].method \in {"POST", "GET"}
         /\ \/ ~Has(req[r].params, "url")
            \/ ~isValidUrl(req[r].params.url)) =>
            /\ pc[r] \in {"handler", "done"}
            /\ calls[r] = <<>>
            /\ ~sessions[r].launched
            /\ browser[r] = 0
            /\ pc[r] = "handler" => res[r] = NoResponse
            /\ pc[r] = "done" => res[r].status = 400 /\ Has(res[r], "json")

WitnessInvalidUrlRejected ==
    \E r \in Requests :
        /\ pc[r] = "done"
        /\ res[r].status = 400
        /\ Has(req[r].params, "url")
        /\ req[r].params.url # <<>>
        /\ ~isValidUrl(req[r].params.url)

\* C3: once the response (200 or 500) to a PDF request has been sent, the
\* session launched for that request is no longer open.
NoOpenSessionAfterResponse ==
    \A r \in Requests :
        res[r].status \in {200, 500} => ~sessions[r].open

RenderFailureSurfaced ==
    \A r \in Requests :
        \A op \in {"launch", "goto", "pdf"} :
            (pc[r] = "done" /\ Rejects1(r, op)) =>
                /\ res[r].status = 500
                /\ DOMAIN res[r].json = {"error", "message", "timestamp"}
                /\ res[r].json.message = RejectionMessage(op)

\* C6: the options given to page.pdf are the defaults merged with the
\* caller's options key by key, the four margin sides included: each
\* recognized option is the caller's when supplied and the default otherwise,
\* and unrecognized keys pass through.
OptionsMergedPerKey ==
    \A r \in Requests :
        Count(r, "pdf") > 0 =>
            LET caller == args[r].options
                eff == pdfOptions[r]
            IN  /\ \A k \in {"format", "printBackground", "headerTemplate",
                             "footerTemplate"} :
                       /\ Has(eff, k)
                       /\ eff[k] = IF Has(caller, k) THEN caller[k]
                                   ELSE DefaultPdfOptions[k]
                /\ Has(eff, "margin")
                /\ \A s \in MarginSides :
                       /\ Has(eff.margin, s)
                       /\ eff.margin[s] =
                            IF Has(caller, "margin") /\ Has(caller.margin, s)
                            THEN caller.margin[s]
                            ELSE DefaultMargin[s]
                /\ \A k \in DOMAIN caller \ DOMAIN DefaultPdfOptions :
                       Has(eff, k) /\ eff[k] = caller[k]

\* C7: a GET request is exported with exactly the default options whatever
\* its query holds; a POST request's options object is what generatePDF gets.
GetUsesDefaults ==
    \A r \in Requests :
        /\ (req[r].method = "GET" /\ pc[r] \notin {"idle", "handler"}) =>
               args[r].options = EmptyObj
        /\ (req[r].method = "GET" /\ Count(r, "pdf") > 0) =>
               pdfOptions[r] = DefaultPdfOptions
        /\ (req[r].method = "POST" /\ Has(req[r].params, "options")
                /\ calls[r] # <<>>) =>
               args[r].options = req[r].params.options

WitnessGetWithOptions ==
    \E r \in Requests :
        /\ req[r].method = "GET"
        /\ Has(req[r].params, "options")
        /\ Has(req[r].params.options, "margin")
        /\ Has(req[r].params, "format")
        /\ res[r].status = 200
        /\ pdfOptions[r] = DefaultPdfOptions

\* the function the specification describes: as sanitizeFilename, but the
\* scheme is stripped only at the start of the string
DescribedSanitize(url) ==
    Substring0(ToLowerCase(ReplaceNonAlnum(StripSchemeAnchored(url))),
               FilenameLimit)

\* C8: sanitizeFilename strips an http:// or https:// scheme only at the
\* start of the string, replaces every character outside [a-zA-Z0-9] by an
\* underscore, lowercases and truncates to 50 characters.
SanitizeAsDescribed ==
    sPc = "done" => sOut = DescribedSanitize(sIn)

\* C9: under any interleaving every request has a session of its own: no
\* other request calls through its handle, every call a request makes goes to
\* the session it launched, the page is navigated to the request's own url,
\* and a 200 response is the PDF of that url, printed with that request's
\* options and named by that request's filename.
SessionsIsolated ==
    \A r \in Requests :
        /\ sessions[r].usedBy \subseteq {r}
        /\ browser[r] \in {0, r}
        /\ page[r] \in {0, r}
        /\ \A i \in DOMAIN calls[r] : calls[r][i].on \in {0, r}
        /\ sessions[r].url # <<>> => sessions[r].url = req[r].params.url
        /\ res[r].status = 200 =>
             /\ res[r].body = RenderBytes(req[r].params.url,
                                         MergePdfOptions(OptionsArg(req[r])))
             /\ res[r].headers.ContentDisposition.filename =
                    PdfFilename(req[r].params)

WitnessConcurrentSessions ==
    \E r1, r2 \in Requests :
        /\ r1 # r2
        /\ res[r1].status = 200
        /\ sessions[r2].open
        /\ pc[r2] = "pdf"
        /\ sessions[r2].url # <<>>
        /\ sessions[r2].url # sessions[r1].url

\* C10: within one call of generatePDF the engine calls happen in program
\* order, none more than once, with at most one launch; nothing but the close
\* follows a failed call, the export happens only after navigation and settle
\* delay succeeded, and a failure reaches the caller.
StepsInOrderOnce ==
    \A r \in Requests :
        LET cs == calls[r]
        IN  /\ \A i, j \in DOMAIN cs :
                  i < j => StepIndex(cs[i].op) < StepIndex(cs[j].op)
            /\ \A i, j \in DOMAIN cs :
                  (i < j /\ ~cs[i].ok) => cs[j].op = "close"
            /\ Count(r, "launch") <= 1
            /\ Count(r, "pdf") > 0 =>
                  Resolves(r, "goto") /\ Resolves(r, "waitForTimeout")
            /\ (pc[r] = "done" /\ \E i \in DOMAIN cs : ~cs[i].ok) =>
                  res[r].status = 500

====
